---------------------------- MODULE Spec2Model ----------------------------
(***************************************************************************)
(* Model of src/Scraper.py: the normalisation and validation pipeline of   *)
(* the product scraper (clean_text, clean_ingredients, extract_detail,     *)
(* search_text_for_patterns, get_skin_concerns, extract_size_volume,       *)
(* extract_product_line_name, validate_completeness) and the main loop of  *)
(* scrape_products.                                                        *)
(*                                                                         *)
(* A Python str is a sequence of one-character strings.  A Python value    *)
(* that may be a str, None, an int or missing from its dict is a record    *)
(* [t, v]: t is the type tag and v the characters of str(value).  A call   *)
(* that raises yields the value Raise(kind).                               *)
(***************************************************************************)
EXTENDS Integers, Sequences, FiniteSets, TLC

VARIABLES
    \* scrape_products: the main loop
    pc, rows, candidate_slugs_queue, attempts,
    \* how many times fetch_product_data was called on each slug
    fetched,
    \* clean_ingredients(x), applied twice
    ing_pc, ing_text, ing_out, ing_again,
    \* get_skin_concerns(text)
    con_pc, con_text, con_out,
    \* extract_size_volume(product_data)
    siz_pc, siz_prod, siz_words, siz_out,
    \* extract_product_line_name(product_data)
    lin_pc, lin_prod, lin_words, lin_out,
    \* validate_completeness(row)
    gat_pc, gat_row, gat_out,
    \* the normalisation step of scrape_products on one fetched record
    nrm_pc, nrm_prod, nrm_row, nrm_out,
    \* get_product_slugs(category_slug, max_products)
    slg_pc, slugs, page, total_fetched

loop_vars == <<pc, rows, candidate_slugs_queue, attempts, fetched>>
ing_vars == <<ing_pc, ing_text, ing_out, ing_again>>
con_vars == <<con_pc, con_text, con_out>>
siz_vars == <<siz_pc, siz_prod, siz_words, siz_out>>
lin_vars == <<lin_pc, lin_prod, lin_words, lin_out>>
gat_vars == <<gat_pc, gat_row, gat_out>>
nrm_vars == <<nrm_pc, nrm_prod, nrm_row, nrm_out>>
slg_vars == <<slg_pc, slugs, page, total_fetched>>

vars ==
    <<loop_vars, ing_vars, con_vars, siz_vars, lin_vars, gat_vars, nrm_vars,
      slg_vars>>

\* each specification below runs one part of the program; the variables of
\* the other parts then keep these values
LoopOff ==
    /\ pc = "off" /\ rows = <<>> /\ candidate_slugs_queue = <<>> /\ attempts = 0
    /\ fetched = <<>>
IngOff ==
    ing_pc = "off" /\ ing_text = <<>> /\ ing_out = <<>> /\ ing_again = <<>>
ConOff == con_pc = "off" /\ con_text = <<>> /\ con_out = <<>>
SizOff == siz_pc = "off" /\ siz_prod = <<>> /\ siz_words = 0 /\ siz_out = <<>>
LinOff == lin_pc = "off" /\ lin_prod = <<>> /\ lin_words = 0 /\ lin_out = <<>>
GatOff == gat_pc = "off" /\ gat_row = <<>> /\ gat_out = <<>>
NrmOff == nrm_pc = "off" /\ nrm_prod = <<>> /\ nrm_row = <<>> /\ nrm_out = <<>>
SlgOff == slg_pc = "off" /\ slugs = <<>> /\ page = 0 /\ total_fetched = 0

-----------------------------------------------------------------------------
(* Characters *)

LowerLetters == <<"a", "b", "c", "d", "e", "f", "g", "h", "i", "j", "k", "l", "m", "n", "o", "p", "q", "r", "s", "t", "u", "v", "w", "x", "y", "z">>
UpperLetters == <<"A", "B", "C", "D", "E", "F", "G", "H", "I", "J", "K", "L", "M", "N", "O", "P", "Q", "R", "S", "T", "U", "V", "W", "X", "Y", "Z">>

Range(f) == {f[i] : i \in DOMAIN f}

Digit == {"0", "1", "2", "3", "4", "5", "6", "7", "8", "9"}
LowerSet == Range(LowerLetters)
UpperSet == Range(UpperLetters)

\* the well-formed markup tag of the model: one element of a text
TAG == "<br>"

\* what str.split() and the regex class \s treat as white space
Whitespace == {" ", "\t", "\n"}

IndexIn(seq, c) == CHOOSE i \in DOMAIN seq : seq[i] = c

\* str.lower() and str.upper() on one character
LowerChar(c) == IF c \in UpperSet THEN LowerLetters[IndexIn(UpperLetters, c)] ELSE c
UpperChar(c) == IF c \in LowerSet THEN UpperLetters[IndexIn(LowerLetters, c)] ELSE c

IsCased(c) == c \in LowerSet \/ c \in UpperSet

\* the regex class \w
WordChar(c) == IsCased(c) \/ c \in Digit \/ c = "_"

\* str.lower()
Lower(s) == [i \in 1..Len(s) |-> LowerChar(s[i])]

Min(S) == CHOOSE x \in S : \A y \in S : x <= y

\* the first index from i on whose character is outside set (Len(s)+1 if none)
SkipWhile(s, i, set) ==
    Min({j \in i..(Len(s) + 1) : j = Len(s) + 1 \/ s[j] \notin set})

\* the last index down from i whose character is outside set (0 if none)
SkipBack(s, i, set) ==
    LET S == {j \in 0..i : j = 0 \/ s[j] \notin set}
    IN  CHOOSE x \in S : \A y \in S : x >= y

\* str.strip(): leading and trailing white space removed
Strip(s) ==
    LET a == SkipWhile(s, 1, Whitespace)
        b == SkipBack(s, Len(s), Whitespace)
    IN  IF a > b THEN <<>> ELSE SubSeq(s, a, b)

\* str.rstrip(chars)
RStrip(s, set) == SubSeq(s, 1, SkipBack(s, Len(s), set))

\* str.split(): the maximal runs of characters that are not in seps
RECURSIVE SplitFrom(_, _, _)
SplitFrom(s, i, seps) ==
    LET a == SkipWhile(s, i, seps)
        b == SkipWhile(s, a, (Range(s) \cup {TAG}) \ seps)
    IN  IF a > Len(s) THEN <<>>
        ELSE <<SubSeq(s, a, b - 1)>> \o SplitFrom(s, b, seps)

Split(s) == SplitFrom(s, 1, Whitespace)

\* sep.join(words)
RECURSIVE Join(_, _)
Join(words, sep) ==
    IF words = <<>> THEN <<>>
    ELSE IF Len(words) = 1 THEN words[1]
    ELSE words[1] \o sep \o Join(Tail(words), sep)

\* whether needle occurs in s at index i
OccursAt(s, i, needle) ==
    /\ i >= 1
    /\ i + Len(needle) - 1 <= Len(s)
    /\ SubSeq(s, i, i + Len(needle) - 1) = needle

\* Python's `needle in s`
Contains(s, needle) == \E i \in 1..(Len(s) + 1) : OccursAt(s, i, needle)

-----------------------------------------------------------------------------
(* The sentinel of the code *)

NA == <<"N", "/", "A">>

-----------------------------------------------------------------------------
(* clean_text *)

\* soup.get_text(separator=" ", strip=True): the text nodes between the tags,
\* each stripped, the empty ones dropped, joined by one space
StripNodes(s) ==
    LET nodes == SplitFrom(s, 1, {TAG})
        kept == SelectSeq([i \in 1..Len(nodes) |-> Strip(nodes[i])],
                          LAMBDA n : n # <<>>)
    IN  Join(kept, <<" ">>)

clean_text(html_str) ==
    IF html_str = <<>> THEN <<>>
    ELSE Join(Split(StripNodes(html_str)), <<" ">>)

-----------------------------------------------------------------------------
(* clean_ingredients *)

\* a slip: every period replaced, the lookahead (?!\d) forgotten
SubPeriodsAll(s) == [i \in 1..Len(s) |-> IF s[i] = "." THEN "," ELSE s[i]]

\* re.sub(r'\.(?!\d)', ',', text)
SubPeriods(s) ==
    [i \in 1..Len(s) |->
        IF s[i] = "." /\ ~(i < Len(s) /\ s[i + 1] \in Digit) THEN "," ELSE s[i]]

\* str.title(): a cased character is upper-cased after an uncased one (or at
\* the start) and lower-cased after a cased one
Title(s) ==
    [i \in 1..Len(s) |->
        IF IsCased(s[i])
        THEN IF i > 1 /\ IsCased(s[i - 1]) THEN LowerChar(s[i]) ELSE UpperChar(s[i])
        ELSE s[i]]

\* the dict common_fixes in its insertion order: \bWord\b -> word
common_fixes ==
    << <<<<"A", "n", "d">>, <<"a", "n", "d">>>>, <<<<"O", "r">>, <<"o", "r">>>>, <<<<"O", "f">>, <<"o", "f">>>>, <<<<"I", "n">>, <<"i", "n">>>>,
       <<<<"T", "h", "e">>, <<"t", "h", "e">>>>, <<<<"W", "i", "t", "h">>, <<"w", "i", "t", "h">>>>, <<<<"F", "r", "o", "m">>, <<"f", "r", "o", "m">>>>,
       <<<<"T", "o">>, <<"t", "o">>>>, <<<<"A", "s">>, <<"a", "s">>>>, <<<<"B", "y">>, <<"b", "y">>>>, <<<<"F", "o", "r">>, <<"f", "o", "r">>>>,
       <<<<"O", "n">>, <<"o", "n">>>>, <<<<"A", "t">>, <<"a", "t">>>>, <<<<"I", "s">>, <<"i", "s">>>>, <<<<"A">>, <<"a">>>>,
       <<<<"A", "n">>, <<"a", "n">>>> >>

\* whether \bword\b matches at index i
WordAt(s, i, word) ==
    /\ OccursAt(s, i, word)
    /\ (i = 1 \/ ~WordChar(s[i - 1]))
    /\ (i + Len(word) > Len(s) \/ ~WordChar(s[i + Len(word)]))

\* re.sub(r'\bWord\b', repl, text), repl as long as Word
SubWord(s, word, repl) ==
    [i \in 1..Len(s) |->
        IF \E k \in 1..Len(word) : i - k + 1 >= 1 /\ WordAt(s, i - k + 1, word)
        THEN LET k == CHOOSE k \in 1..Len(word) :
                          i - k + 1 >= 1 /\ WordAt(s, i - k + 1, word)
             IN  repl[k]
        ELSE s[i]]

\* the loop over common_fixes.items(), from entry n on
RECURSIVE ApplyFixes(_, _)
ApplyFixes(s, n) ==
    IF n > Len(common_fixes) THEN s
    ELSE ApplyFixes(SubWord(s, common_fixes[n][1], common_fixes[n][2]), n + 1)

\* the end of the match of ,\s*,+ at index i, 0 when it does not match there
CommaRunEnd(s, i) ==
    IF i > Len(s) \/ s[i] # "," THEN 0
    ELSE LET j == SkipWhile(s, i + 1, Whitespace)
         IN  IF j > Len(s) \/ s[j] # "," THEN 0
             ELSE SkipWhile(s, j, {","}) - 1

\* re.sub(r',\s*,+', ',', text), scanning from index i
RECURSIVE CollapseCommas(_, _)
CollapseCommas(s, i) ==
    IF i > Len(s) THEN <<>>
    ELSE LET e == CommaRunEnd(s, i)
         IN  IF e > 0 THEN <<",">> \o CollapseCommas(s, e + 1)
             ELSE <<s[i]>> \o CollapseCommas(s, i + 1)

\* the end of the match of \s*,\s* at index i, 0 when it does not match there
CommaSpacingEnd(s, i) ==
    LET j == SkipWhile(s, i, Whitespace)
    IN  IF j > Len(s) \/ s[j] # "," THEN 0
        ELSE SkipWhile(s, j + 1, Whitespace) - 1

\* re.sub(r'\s*,\s*', ', ', text), scanning from index i
RECURSIVE SpaceCommas(_, _)
SpaceCommas(s, i) ==
    IF i > Len(s) THEN <<>>
    ELSE LET e == CommaSpacingEnd(s, i)
         IN  IF e > 0 THEN <<",", " ">> \o SpaceCommas(s, e + 1)
             ELSE <<s[i]>> \o SpaceCommas(s, i + 1)

\* re.sub(r'\s+', ' ', text), scanning from index i
RECURSIVE CollapseSpaces(_, _)
CollapseSpaces(s, i) ==
    IF i > Len(s) THEN <<>>
    ELSE IF s[i] \in Whitespace
         THEN <<" ">> \o CollapseSpaces(s, SkipWhile(s, i, Whitespace))
         ELSE <<s[i]>> \o CollapseSpaces(s, i + 1)

\* steps 4 and 5 of clean_ingredients
FixPunctuation(s) ==
    RStrip(Strip(CollapseSpaces(SpaceCommas(CollapseCommas(s, 1), 1), 1)),
           {",", " "})

clean_ingredients(ingredients_text) ==
    IF ingredients_text = <<>> \/ ingredients_text = NA THEN ingredients_text
    ELSE LET cleaned_text == clean_text(ingredients_text)
         IN  IF cleaned_text = <<>> \/ Strip(cleaned_text) = <<>> THEN NA
             ELSE FixPunctuation(ApplyFixes(Title(SubPeriods(cleaned_text)), 1))

-----------------------------------------------------------------------------
(* The regular expressions of the code.  A pattern is a sequence of pieces; *)
(* the positions a match can end at are computed as sets, which covers the   *)
(* matcher's backtracking.                                                   *)

Lit(s) == [k |-> "lit", s |-> s]              \* literal text
Ws == [k |-> "ws*", s |-> <<>>]               \* \s*
OptAny == [k |-> "any?", s |-> <<>>]          \* .?
OptDot == [k |-> "dot?", s |-> <<>>]          \* \.?

\* the text as the matcher compares it: case folded under re.IGNORECASE
Fold(s, ignorecase) == IF ignorecase THEN Lower(s) ELSE s

\* where a match of one piece starting at pos can end (index after the match)
PieceEnds(s, pos, piece, ignorecase) ==
    CASE piece.k = "lit" ->
            IF /\ pos + Len(piece.s) - 1 <= Len(s)
               /\ Fold(SubSeq(s, pos, pos + Len(piece.s) - 1), ignorecase)
                      = Fold(piece.s, ignorecase)
            THEN {pos + Len(piece.s)} ELSE {}
      [] piece.k = "ws*" -> pos..SkipWhile(s, pos, Whitespace)
      [] piece.k = "any?" ->
            {pos} \cup (IF pos <= Len(s) /\ s[pos] # "\n" THEN {pos + 1} ELSE {})
      [] piece.k = "dot?" ->
            {pos} \cup (IF pos <= Len(s) /\ s[pos] = "." THEN {pos + 1} ELSE {})

\* where a match of pieces[n..] starting at one of the positions P can end
RECURSIVE PiecesEnds(_, _, _, _, _)
PiecesEnds(s, P, pieces, n, ignorecase) ==
    IF n > Len(pieces) \/ P = {} THEN P
    ELSE PiecesEnds(s,
                    UNION {PieceEnds(s, pos, pieces[n], ignorecase) : pos \in P},
                    pieces, n + 1, ignorecase)

\* bool(re.search(pattern, text))
Search(s, pieces, ignorecase) ==
    \E i \in 1..(Len(s) + 1) : PiecesEnds(s, {i}, pieces, 1, ignorecase) # {}

-----------------------------------------------------------------------------
(* get_skin_concerns *)

\* the dict concern_patterns in its insertion order
concern_patterns == <<
    [concern |-> <<"a", "c", "n", "e">>,
     patterns |-> << <<Lit(<<"a", "c", "n", "e">>)>>, <<Lit(<<"p", "i", "m", "p", "l", "e">>)>>, <<Lit(<<"b", "r", "e", "a", "k", "o", "u", "t">>)>>,
                     <<Lit(<<"b", "l", "e", "m", "i", "s", "h">>)>> >>],
    [concern |-> <<"d", "r", "y", " ", "s", "k", "i", "n">>,
     patterns |-> << <<Lit(<<"d", "r", "y">>), Ws, Lit(<<"s", "k", "i", "n">>)>>, <<Lit(<<"d", "e", "h", "y", "d", "r", "a", "t">>)>>,
                     <<Lit(<<"m", "o", "i", "s", "t", "u", "r", "i", "z">>)>>, <<Lit(<<"h", "y", "d", "r", "a", "t">>)>> >>],
    [concern |-> <<"o", "i", "l", "y", " ", "s", "k", "i", "n">>,
     patterns |-> << <<Lit(<<"o", "i", "l", "y">>), Ws, Lit(<<"s", "k", "i", "n">>)>>,
                     <<Lit(<<"e", "x", "c", "e", "s", "s">>), Ws, Lit(<<"o", "i", "l">>)>>, <<Lit(<<"s", "e", "b", "u", "m">>)>> >>],
    [concern |-> <<"s", "e", "n", "s", "i", "t", "i", "v", "e", " ", "s", "k", "i", "n">>,
     patterns |-> << <<Lit(<<"s", "e", "n", "s", "i", "t", "i", "v", "e">>), Ws, Lit(<<"s", "k", "i", "n">>)>>, <<Lit(<<"g", "e", "n", "t", "l", "e">>)>>,
                     <<Lit(<<"s", "o", "o", "t", "h">>)>>, <<Lit(<<"c", "a", "l", "m">>)>> >>],
    [concern |-> <<"a", "n", "t", "i", "-", "a", "g", "i", "n", "g">>,
     patterns |-> << <<Lit(<<"a", "n", "t", "i">>), OptAny, Lit(<<"a", "g", "i", "n", "g">>)>>, <<Lit(<<"w", "r", "i", "n", "k", "l", "e">>)>>,
                     <<Lit(<<"f", "i", "n", "e">>), Ws, Lit(<<"l", "i", "n", "e">>)>>, <<Lit(<<"f", "i", "r", "m">>)>> >>],
    [concern |-> <<"h", "y", "p", "e", "r", "p", "i", "g", "m", "e", "n", "t", "a", "t", "i", "o", "n">>,
     patterns |-> << <<Lit(<<"h", "y", "p", "e", "r", "p", "i", "g", "m", "e", "n", "t">>)>>, <<Lit(<<"d", "a", "r", "k">>), Ws, Lit(<<"s", "p", "o", "t">>)>>,
                     <<Lit(<<"d", "i", "s", "c", "o", "l", "o", "r">>)>> >>],
    [concern |-> <<"s", "u", "n", " ", "p", "r", "o", "t", "e", "c", "t", "i", "o", "n">>,
     patterns |-> << <<Lit(<<"s", "p", "f">>)>>, <<Lit(<<"s", "u", "n">>), Ws, Lit(<<"p", "r", "o", "t", "e", "c", "t", "i", "o", "n">>)>>,
                     <<Lit(<<"s", "u", "n", "s", "c", "r", "e", "e", "n">>)>> >>],
    [concern |-> <<"r", "o", "s", "a", "c", "e", "a">>,
     patterns |-> << <<Lit(<<"r", "o", "s", "a", "c", "e", "a">>)>>, <<Lit(<<"r", "e", "d", "n", "e", "s", "s">>)>> >>],
    [concern |-> <<"e", "c", "z", "e", "m", "a">>,
     patterns |-> << <<Lit(<<"e", "c", "z", "e", "m", "a">>)>>, <<Lit(<<"d", "e", "r", "m", "a", "t", "i", "t", "i", "s">>)>> >>],
    [concern |-> <<"m", "a", "t", "u", "r", "e", " ", "s", "k", "i", "n">>,
     patterns |-> << <<Lit(<<"m", "a", "t", "u", "r", "e">>), Ws, Lit(<<"s", "k", "i", "n">>)>>,
                     <<Lit(<<"a", "g", "i", "n", "g">>), Ws, Lit(<<"s", "k", "i", "n">>)>> >>],
    [concern |-> <<"d", "u", "l", "l", "n", "e", "s", "s">>,
     patterns |-> << <<Lit(<<"d", "u", "l", "l">>)>>, <<Lit(<<"b", "r", "i", "g", "h", "t", "e", "n">>)>>, <<Lit(<<"r", "a", "d", "i", "a", "n", "c", "e">>)>>,
                     <<Lit(<<"g", "l", "o", "w">>)>> >>] >>

InList(x, list) == \E i \in 1..Len(list) : list[i] = x

\* the inner loop `for pattern in patterns`, from pattern k on: the first
\* pattern found appends the concern unless it is listed, and breaks
RECURSIVE PatternLoop(_, _, _, _, _)
PatternLoop(text, concern, patterns, k, detected_concerns) ==
    IF k > Len(patterns) THEN detected_concerns
    ELSE IF Search(text, patterns[k], FALSE)
         THEN IF ~InList(concern, detected_concerns)
              THEN Append(detected_concerns, concern)
              ELSE detected_concerns
         ELSE PatternLoop(text, concern, patterns, k + 1, detected_concerns)

\* the outer loop `for concern, patterns in concern_patterns.items()`
RECURSIVE ConcernLoop(_, _, _)
ConcernLoop(text, n, detected_concerns) ==
    IF n > Len(concern_patterns) THEN detected_concerns
    ELSE ConcernLoop(text, n + 1,
                     PatternLoop(text, concern_patterns[n].concern,
                                 concern_patterns[n].patterns, 1,
                                 detected_concerns))

\* a slip: the text is matched as given, text.lower() forgotten
get_skin_concerns_as_given(text) ==
    IF text = <<>> THEN <<>> ELSE ConcernLoop(text, 1, <<>>)

get_skin_concerns(text) ==
    IF text = <<>> THEN <<>> ELSE ConcernLoop(Lower(text), 1, <<>>)

-----------------------------------------------------------------------------
(* Python values and the raw product record *)

Str(s) == [t |-> "str", v |-> s]
None == [t |-> "None", v |-> <<>>]
IntVal(digits) == [t |-> "int", v |-> digits]
\* the dict {'size': s}
Dict(s) == [t |-> "dict", v |-> s]
\* the key is not in the dict
Absent == [t |-> "absent", v |-> <<>>]
\* the call raised
Raise(kind) == [t |-> "raise", v |-> <<kind>>]

Raised(x) == x.t = "raise"

\* dict.get(key, default), and dict.get(key) which defaults to None
Get(x, default) == IF x.t = "absent" THEN default ELSE x
GetOrNone(x) == Get(x, None)

\* bool(x)
Truthy(x) ==
    \/ x.t = "str" /\ x.v # <<>>
    \/ x.t = "int" /\ x.v # <<"0">>
    \/ x.t = "dict"

\* str(x)
PyStr(x) ==
    CASE x.t = "str" -> x.v
      [] x.t = "int" -> x.v
      [] x.t = "None" -> <<"N", "o", "n", "e">>
      [] x.t = "dict" ->
            <<"{", "'", "s", "i", "z", "e", "'", ":", " ", "'">> \o x.v \o <<"'", "}">>

\* the raw record of the catalog API, as far as the code reads it:
\*   product_id, name, upc, price, description, attributes: values;
\*   brand: [t, brand_name]; images: [t, urls]; details: [t, items], an item
\*   being [content_label, content]
Detail(label, content) == [content_label |-> label, content |-> content]
Brand(brand_name) == [t |-> "dict", brand_name |-> brand_name]
Images(urls) == [t |-> "dict", urls |-> urls]
Details(items) == [t |-> "list", items |-> items]
NoBrand(t) == [t |-> t, brand_name |-> Absent]
NoImages(t) == [t |-> t, urls |-> <<>>]
NoDetails(t) == [t |-> t, items |-> <<>>]

\* the record {}: every key missing
EmptyProd ==
    [product_id |-> Absent, name |-> Absent, upc |-> Absent, price |-> Absent,
     description |-> Absent, attributes |-> Absent, brand |-> NoBrand("absent"),
     images |-> NoImages("absent"), details |-> NoDetails("absent")]

\* the first raised value among xs, or otherwise
FirstRaise(xs, otherwise) ==
    IF \E i \in 1..Len(xs) : Raised(xs[i])
    THEN xs[Min({i \in 1..Len(xs) : Raised(xs[i])})]
    ELSE otherwise

-----------------------------------------------------------------------------
(* extract_detail *)

\* clean_text(x) for a value x: a falsy value gives "", BeautifulSoup takes a str
clean_text_of(x) ==
    IF ~Truthy(x) THEN Str(<<>>)
    ELSE IF x.t = "str" THEN Str(clean_text(x.v))
    ELSE Raise("TypeError")

\* the loop `for detail_obj in details`, from item n on
RECURSIVE DetailLoop(_, _, _)
DetailLoop(items, n, label) ==
    IF n > Len(items) THEN Str(<<>>)
    ELSE IF GetOrNone(items[n].content_label) = Str(label)
         THEN clean_text_of(GetOrNone(items[n].content))
         ELSE DetailLoop(items, n + 1, label)

\* extract_detail(prod.get("details"), label)
extract_detail(details, label) ==
    IF details.t # "list" \/ details.items = <<>> THEN Str(<<>>)
    ELSE DetailLoop(details.items, 1, label)

-----------------------------------------------------------------------------
(* search_text_for_patterns and extract_size_volume *)

\* the list size_patterns: (\d+(?:\.\d+)?)\s*(unit|...) where decimal, and
\* (\d+)\s*(unit|...) otherwise; a unit is a sequence of pieces
size_patterns == <<
    [decimal |-> TRUE,
     units |-> << <<Lit(<<"m", "l">>)>>, <<Lit(<<"m", "L">>)>>, <<Lit(<<"M", "L">>)>> >>],
    [decimal |-> TRUE,
     units |-> << <<Lit(<<"g">>)>>, <<Lit(<<"g", "m">>)>>, <<Lit(<<"G", "M">>)>>, <<Lit(<<"g", "r", "a", "m">>)>>,
                  <<Lit(<<"g", "r", "a", "m", "s">>)>> >>],
    [decimal |-> TRUE,
     units |-> << <<Lit(<<"o", "z">>)>>, <<Lit(<<"O", "Z">>)>>,
                  <<Lit(<<"f", "l">>), OptDot, Ws, Lit(<<"o", "z">>)>> >>],
    [decimal |-> TRUE,
     units |-> << <<Lit(<<"l">>)>>, <<Lit(<<"L">>)>>, <<Lit(<<"l", "i", "t", "e", "r">>)>>,
                  <<Lit(<<"l", "i", "t", "r", "e">>)>> >>],
    [decimal |-> FALSE,
     units |-> << <<Lit(<<"t", "a", "b", "l", "e", "t">>)>>, <<Lit(<<"t", "a", "b", "l", "e", "t", "s">>)>>, <<Lit(<<"c", "a", "p", "s">>)>>,
                  <<Lit(<<"c", "a", "p", "s", "u", "l", "e">>)>>, <<Lit(<<"c", "a", "p", "s", "u", "l", "e", "s">>)>> >>],
    [decimal |-> FALSE,
     units |-> << <<Lit(<<"c", "o", "u", "n", "t">>)>>, <<Lit(<<"c", "t">>)>>, <<Lit(<<"p", "i", "e", "c", "e", "s">>)>>,
                  <<Lit(<<"p", "c", "s">>)>> >>],
    [decimal |-> TRUE,
     units |-> << <<Lit(<<"k", "g">>)>>, <<Lit(<<"K", "G">>)>>, <<Lit(<<"k", "i", "l", "o", "g", "r", "a", "m">>)>> >>] >>

\* the result of re.search when nothing matches
NoMatch == [found |-> FALSE, group1 |-> <<>>, group2 |-> <<>>]

\* where \d+ or \d+(?:\.\d+)? starting at i can end
NumberEnds(s, i, decimal) ==
    IF i > Len(s) \/ s[i] \notin Digit THEN {}
    ELSE LET whole == (i + 1)..SkipWhile(s, i, Digit)
             fraction(e) ==
                 IF e + 1 <= Len(s) /\ s[e] = "." /\ s[e + 1] \in Digit
                 THEN (e + 2)..SkipWhile(s, e + 1, Digit) ELSE {}
         IN  IF decimal THEN whole \cup UNION {fraction(e) : e \in whole}
             ELSE whole

\* the ways a size pattern matches from index i: <<e, w, k, z>>, the number
\* is s[i..e-1], the unit is alternative k and is s[w..z-1]
SizeMatchesAt(s, i, pattern) ==
    {m \in UNION {UNION {UNION {
            {<<e, w, k, z>> : z \in PiecesEnds(s, {w}, pattern.units[k], 1, TRUE)}
                : k \in 1..Len(pattern.units)}
                : w \in e..SkipWhile(s, e, Whitespace)}
                : e \in NumberEnds(s, i, pattern.decimal)} : TRUE}

\* the match the backtracking matcher tries first: the longest number, the
\* longest white space, the leftmost alternative, the longest unit text
Preferred(a, b) ==
    \/ a[1] > b[1]
    \/ a[1] = b[1] /\ a[2] > b[2]
    \/ a[1] = b[1] /\ a[2] = b[2] /\ a[3] < b[3]
    \/ a[1] = b[1] /\ a[2] = b[2] /\ a[3] = b[3] /\ a[4] >= b[4]

\* re.search(pattern, text, re.IGNORECASE): the leftmost match
SizeSearch(s, pattern) ==
    LET starts == {i \in 1..Len(s) : SizeMatchesAt(s, i, pattern) # {}}
    IN  IF starts = {} THEN NoMatch
        ELSE LET i == Min(starts)
                 M == SizeMatchesAt(s, i, pattern)
                 m == CHOOSE a \in M : \A b \in M : Preferred(a, b)
             IN  [found |-> TRUE, group1 |-> SubSeq(s, i, m[1] - 1),
                  group2 |-> SubSeq(s, m[2], m[4] - 1)]

\* the loop `for pattern in patterns`, from pattern n on
RECURSIVE PatternsLoop(_, _, _)
PatternsLoop(text, patterns, n) ==
    IF n > Len(patterns) THEN NoMatch
    ELSE LET match == SizeSearch(text, patterns[n])
         IN  IF match.found THEN match ELSE PatternsLoop(text, patterns, n + 1)

\* a slip: the match that starts leftmost in the text, whatever its pattern
LeftmostOfAllPatterns(text, patterns) ==
    LET hits == {n \in 1..Len(patterns) : SizeSearch(text, patterns[n]).found}
        start(n) == Min({i \in 1..Len(text) :
                            SizeMatchesAt(text, i, patterns[n]) # {}})
    IN  IF text = <<>> \/ hits = {} THEN NoMatch
        ELSE SizeSearch(text, patterns[CHOOSE n \in hits : \A h \in hits :
                            start(n) < start(h) \/ (start(n) = start(h) /\ n <= h)])

search_text_for_patterns(text, patterns) ==
    IF text = <<>> THEN NoMatch ELSE PatternsLoop(text, patterns, 1)

\* " ".join([d.get("content", "") for d in product_data.get("details", [])])
JoinedDetailContents(details) ==
    IF details.t = "None" THEN Raise("TypeError")
    ELSE LET contents == [n \in 1..Len(details.items) |->
                             Get(details.items[n].content, Str(<<>>))]
         IN  IF \E n \in 1..Len(contents) : contents[n].t # "str"
             THEN Raise("TypeError")
             ELSE Str(Join([n \in 1..Len(contents) |-> contents[n].v], <<" ">>))

\* the list search_fields
search_fields(product_data) ==
    << Get(product_data.name, Str(<<>>)),
       JoinedDetailContents(product_data.details),
       Get(product_data.description, Str(<<>>)),
       Str(IF product_data.attributes.t = "absent" THEN <<"{", "}">>
           ELSE PyStr(product_data.attributes)) >>

\* the loop `for field_content in search_fields`, from field n on
RECURSIVE FieldsLoop(_, _)
FieldsLoop(fields, n) ==
    IF n > Len(fields) THEN Str(NA)
    ELSE IF ~Truthy(fields[n]) THEN FieldsLoop(fields, n + 1)
    ELSE IF fields[n].t # "str" THEN Raise("TypeError")
    ELSE LET match == search_text_for_patterns(fields[n].v, size_patterns)
         IN  IF match.found THEN Str(match.group1 \o match.group2)
             ELSE FieldsLoop(fields, n + 1)

extract_size_volume(product_data) ==
    IF product_data = EmptyProd THEN Str(NA)
    ELSE FirstRaise(search_fields(product_data),
                    FieldsLoop(search_fields(product_data), 1))

-----------------------------------------------------------------------------
(* extract_product_line_name *)

\* the keywords of strategy 1 and the generic terms of strategy 2
line_keywords == <<<<"l", "i", "n", "e">>, <<"c", "o", "l", "l", "e", "c", "t", "i", "o", "n">>, <<"s", "e", "r", "i", "e", "s">>, <<"r", "a", "n", "g", "e">>>>
generic_terms ==
    <<<<"c", "r", "e", "a", "m">>, <<"l", "o", "t", "i", "o", "n">>, <<"s", "e", "r", "u", "m">>, <<"o", "i", "l">>, <<"g", "e", "l">>, <<"c", "l", "e", "a", "n", "s", "e", "r">>, <<"m", "o", "i", "s", "t", "u", "r", "i", "s", "e", "r">>,
      <<"s", "p", "f">>, <<"w", "a", "s", "h">>>>

\* any(term in text for term in terms)
AnyIn(terms, text) == \E n \in 1..Len(terms) : Contains(text, terms[n])

\* the length a line name taken from the details must stay under
MaxLineNameLen == 100

\* a slip: a content of exactly 100 characters accepted
ReasonableLengthInclusive(line_name) ==
    line_name # <<>> /\ Len(line_name) <= MaxLineNameLen

\* `line_name and len(line_name) < 100`
ReasonableLength(line_name) ==
    line_name # <<>> /\ Len(line_name) < MaxLineNameLen

\* the result of strategy 1 when no detail gives a line name
NoLine == Absent

\* the loop `for detail in details`, from item n on
RECURSIVE LineDetailLoop(_, _)
LineDetailLoop(items, n) ==
    IF n > Len(items) THEN NoLine
    ELSE LET label == Get(items[n].content_label, Str(<<>>))
             line_name == clean_text_of(Get(items[n].content, Str(<<>>)))
         IN  IF label.t # "str" THEN Raise("AttributeError")
             ELSE IF ~AnyIn(line_keywords, Lower(label.v))
                  THEN LineDetailLoop(items, n + 1)
             ELSE IF Raised(line_name) THEN line_name
             ELSE IF ReasonableLength(line_name.v) THEN line_name
             ELSE LineDetailLoop(items, n + 1)

\* str.replace(old, ""), scanning from index i (old is not empty)
RECURSIVE RemoveAll(_, _, _)
RemoveAll(s, i, old) ==
    IF i > Len(s) THEN <<>>
    ELSE IF OccursAt(s, i, old) THEN RemoveAll(s, i + Len(old), old)
    ELSE <<s[i]>> \o RemoveAll(s, i + 1, old)

\* a slip: a word of two characters accepted
QualifiesFromTwo(part) == part # <<>> /\ part[1] \in UpperSet /\ Len(part) >= 2

\* `part and part[0].isupper() and len(part) > 2`
Qualifies(part) == part # <<>> /\ part[1] \in UpperSet /\ Len(part) > 2

\* the loop `for part in name_parts[:3]`, from part n on
RECURSIVE WordsLoop(_, _, _)
WordsLoop(parts, n, potential_line_words) ==
    IF n > Len(parts) \/ n > 3 THEN potential_line_words
    ELSE IF Qualifies(parts[n])
         THEN WordsLoop(parts, n + 1, Append(potential_line_words, parts[n]))
         ELSE potential_line_words

\* product_data.get("brand", {}).get("brand_name", "")
BrandNameOr(brand, default) ==
    CASE brand.t = "absent" -> default
      [] brand.t = "None" -> Raise("AttributeError")
      [] brand.t = "dict" -> Get(brand.brand_name, default)

\* strategy 2, once the names are known to be strings
LineFromName(product_name, brand_name) ==
    LET remaining_name == Strip(RemoveAll(product_name, 1, brand_name))
        name_parts == Split(remaining_name)
        potential_line_words == WordsLoop(name_parts, 1, <<>>)
        line_name == Join(potential_line_words, <<" ">>)
    IN  IF /\ Len(name_parts) > 1
           /\ potential_line_words # <<>>
           /\ ~AnyIn(generic_terms, Lower(line_name))
        THEN Str(line_name)
        ELSE Str(NA)

\* lines 333-366
LineStrategy2(product_data) ==
    LET product_name == Get(product_data.name, Str(<<>>))
        brand_name == BrandNameOr(product_data.brand, Str(<<>>))
    IN  IF Raised(brand_name) THEN brand_name
        ELSE IF ~Truthy(brand_name) THEN Str(NA)
        ELSE IF brand_name.t # "str" \/ product_name.t # "str"
             THEN Raise("TypeError")
        ELSE IF Contains(product_name.v, brand_name.v)
             THEN LineFromName(product_name.v, brand_name.v)
        ELSE Str(NA)

extract_product_line_name(product_data) ==
    IF product_data.details.t = "None" THEN Raise("TypeError")
    ELSE LET found == LineDetailLoop(product_data.details.items, 1)
         IN  IF found # NoLine THEN found ELSE LineStrategy2(product_data)

-----------------------------------------------------------------------------
(* validate_completeness *)

\* the keys of a row, in the order of the dict display at lines 518-531
row_fields ==
    <<"Product ID", "Product Name", "Product Line Name", "Brand Name",
      "Product Description", "Product Images", "Barcode (EAN/UPC)", "Price",
      "Size/Volume", "Ingredients", "Skin Concern", "Source URL">>

\* a slip: every column of the row required, the product line included
required_fields_all == row_fields

\* the list required_fields
required_fields ==
    <<"Product ID", "Product Name", "Brand Name", "Product Description",
      "Product Images", "Barcode (EAN/UPC)", "Price", "Size/Volume",
      "Ingredients", "Skin Concern", "Source URL">>

\* the results (True, None) and (False, field)
Complete == [is_complete |-> TRUE, missing_field |-> "None"]
Incomplete(field) == [is_complete |-> FALSE, missing_field |-> field]

\* a slip: only the sentinel counts as missing, `not row.get(field)` forgotten
FieldIsSentinel(row, field) == GetOrNone(row[field]) = Str(NA)

\* `row.get(field) == "N/A" or not row.get(field)`
FieldMissing(row, field) ==
    GetOrNone(row[field]) = Str(NA) \/ ~Truthy(GetOrNone(row[field]))

\* the loop `for field in required_fields`, from field n on
RECURSIVE ValidateLoop(_, _)
ValidateLoop(row, n) ==
    IF n > Len(required_fields) THEN Complete
    ELSE IF FieldMissing(row, required_fields[n])
         THEN Incomplete(required_fields[n])
         ELSE ValidateLoop(row, n + 1)

validate_completeness(row) == ValidateLoop(row, 1)

-----------------------------------------------------------------------------
(* scrape_products: one fetched record made into a row, lines 504-531 *)

BASE == <<"h", "t", "t", "p", "s", ":", "/", "/", "t", "e", "r", "r", "y", "w", "h", "i", "t", "e", "c", "h", "e", "m", "m", "a", "r", "t", ".", "c", "o", "m", ".", "a", "u">>

\* list(prod.get("images", {}).values())
ImageUrls(images) ==
    IF images.t = "None" THEN Raise("AttributeError")
    ELSE [t |-> "list", urls |-> images.urls]

\* the value, or the sentinel when it is falsy: `x if x else "N/A"`
OrNA(s) == IF s = <<>> THEN Str(NA) ELSE Str(s)

\* the dict display `row = {...}`, every call before it having returned
RowOf(prod, slug, brand_name, image_urls, general_info, cleaned_ingredients, skin_concerns, size_volume, product_line_name) ==
    [f \in Range(row_fields) |->
        CASE f = "Product ID" -> Get(prod.product_id, Str(NA))
          [] f = "Product Name" -> Get(prod.name, Str(NA))
          [] f = "Product Line Name" -> product_line_name
          [] f = "Brand Name" -> brand_name
          [] f = "Product Description" -> OrNA(general_info)
          [] f = "Product Images" -> OrNA(Join(image_urls, <<"|">>))
          [] f = "Barcode (EAN/UPC)" -> Get(prod.upc, Str(NA))
          [] f = "Price" -> Str(PyStr(Get(prod.price, Str(NA))))
          [] f = "Size/Volume" -> size_volume
          [] f = "Ingredients" -> OrNA(cleaned_ingredients)
          [] f = "Skin Concern" -> OrNA(Join(skin_concerns, <<",", " ">>))
          [] f = "Source URL" -> Str(BASE \o <<"/", "s", "h", "o", "p", "/", "p", "r", "o", "d", "u", "c", "t", "/">> \o slug)]

\* what lines 505-531 come to once the six calls have returned or raised: the
\* exception of the first call that raises, or the row
RowOrRaise(prod, slug, brand_name, image_urls, general_info, ingredients, size_volume, product_line_name) ==
    IF FirstRaise(<<brand_name, image_urls, general_info, ingredients,
                    size_volume, product_line_name>>, None) # None
    THEN FirstRaise(<<brand_name, image_urls, general_info, ingredients,
                      size_volume, product_line_name>>, None)
    ELSE [t |-> "row",
          row |-> RowOf(prod, slug, brand_name, image_urls.urls, general_info.v,
                        clean_ingredients(ingredients.v),
                        get_skin_concerns(general_info.v \o <<" ">>
                            \o PyStr(Get(prod.name, Str(<<>>)))),
                        size_volume, product_line_name)]

\* lines 504-531: the row of a fetched record, or the exception of the first
\* call that raises
BuildRow(prod, slug) ==
    RowOrRaise(prod, slug,
               BrandNameOr(prod.brand, Str(NA)),
               ImageUrls(prod.images),
               extract_detail(prod.details, <<"G", "e", "n", "e", "r", "a", "l", " ", "I", "n", "f", "o", "r", "m", "a", "t", "i", "o", "n">>),
               extract_detail(prod.details, <<"I", "n", "g", "r", "e", "d", "i", "e", "n", "t", "s">>),
               extract_size_volume(prod),
               extract_product_line_name(prod))

-----------------------------------------------------------------------------
(* clean_ingredients applied to a text, and again to its own output *)

\* the longest ingredient text tried
MaxIngLen == 5

IngAlphabet == {"a", "A", "1", ".", ",", " ", TAG}

IngInit ==
    /\ ing_pc = "input"
    /\ ing_text = <<>>
    /\ ing_out = <<>>
    /\ ing_again = <<>>
    /\ LoopOff /\ ConOff /\ SizOff /\ LinOff /\ GatOff /\ NrmOff /\ SlgOff

IngType(c) ==
    /\ ing_pc = "input"
    /\ Len(ing_text) < MaxIngLen
    /\ ing_text' = Append(ing_text, c)
    /\ UNCHANGED <<ing_pc, ing_out, ing_again>>
    /\ UNCHANGED <<loop_vars, con_vars, siz_vars, lin_vars, gat_vars, nrm_vars,
                 slg_vars>>

IngClean ==
    /\ ing_pc = "input"
    /\ ing_pc' = "cleaned"
    /\ ing_out' = clean_ingredients(ing_text)
    /\ UNCHANGED <<ing_text, ing_again>>
    /\ UNCHANGED <<loop_vars, con_vars, siz_vars, lin_vars, gat_vars, nrm_vars,
                 slg_vars>>

IngCleanAgain ==
    /\ ing_pc = "cleaned"
    /\ ing_pc' = "recleaned"
    /\ ing_again' = clean_ingredients(ing_out)
    /\ UNCHANGED <<ing_text, ing_out>>
    /\ UNCHANGED <<loop_vars, con_vars, siz_vars, lin_vars, gat_vars, nrm_vars,
                 slg_vars>>

IngNext ==
    \/ \E c \in IngAlphabet : IngType(c)
    \/ IngClean
    \/ IngCleanAgain

SpecClean == IngInit /\ [][IngNext]_vars

-----------------------------------------------------------------------------
(* Claims about clean_ingredients *)

\* C5: clean_ingredients is idempotent: for every non-empty text x over
\* letters, digits, periods, commas and spaces,
\* clean_ingredients(clean_ingredients(x)) = clean_ingredients(x).
C5_Idempotent ==
    (ing_pc = "recleaned" /\ ing_text # <<>> /\ TAG \notin Range(ing_text))
        => ing_again = ing_out

\* s without the characters i for which Drop(s, i) holds
Without(s, Drop(_, _)) ==
    LET keep == SelectSeq([i \in 1..Len(s) |-> i], LAMBDA i : ~Drop(s, i))
    IN  [k \in 1..Len(keep) |-> s[keep[k]]]

PeriodBeforeDigit(s, i) == s[i] = "." /\ i < Len(s) /\ s[i + 1] \in Digit
Separator(s, i) == s[i] \in {",", " "}
SeparatorOrLoosePeriod(s, i) ==
    Separator(s, i) \/ (s[i] = "." /\ ~PeriodBeforeDigit(s, i))

\* C6: when the sanitized input is non-empty, every period of the output is
\* immediately followed by a digit, and the output is, up to letter case,
\* commas and spaces, the sanitized input with the periods that a digit
\* follows kept where they are and every other period gone (turned into a
\* comma).
C6_PeriodsKeptOnlyBeforeDigits ==
    (ing_pc # "input" /\ clean_text(ing_text) # <<>>)
        => /\ \A i \in 1..Len(ing_out) :
                  ing_out[i] = "." => PeriodBeforeDigit(ing_out, i)
           /\ Lower(Without(ing_out, Separator))
                  = Lower(Without(clean_text(ing_text), SeparatorOrLoosePeriod))

\* a text with a decimal point and a sentence period has been cleaned
C6_Witness ==
    /\ ing_pc = "cleaned"
    /\ \E i \in 1..Len(ing_out) : ing_out[i] = "."
    /\ \E i \in 1..Len(ing_out) : ing_out[i] = ","
    /\ \E i \in 1..Len(clean_text(ing_text)) :
           /\ clean_text(ing_text)[i] = "."
           /\ ~PeriodBeforeDigit(clean_text(ing_text), i)

-----------------------------------------------------------------------------
(* get_skin_concerns applied to a text made of words *)

\* the most words a classified text is made of
MaxConcernWords == 3

ConcernWords ==
    {<<"G", "l", "o", "w">>, <<"a", "c", "n", "e">>, <<"p", "i", "m", "p", "l", "e">>, <<"d", "r", "y">>, <<" ">>, <<"s", "k", "i", "n">>, <<"a", "n", "t", "i">>, <<"a", "g", "i", "n", "g">>, <<"S", "P", "F">>}

ConInit ==
    /\ con_pc = "input"
    /\ con_text = <<>>
    /\ con_out = <<>>
    /\ LoopOff /\ IngOff /\ SizOff /\ LinOff /\ GatOff /\ NrmOff /\ SlgOff

\* con_text holds the words typed so far, con_text[i] one word
ConType(w) ==
    /\ con_pc = "input"
    /\ Len(con_text) < MaxConcernWords
    /\ con_text' = Append(con_text, w)
    /\ UNCHANGED <<con_pc, con_out>>
    /\ UNCHANGED <<loop_vars, ing_vars, siz_vars, lin_vars, gat_vars, nrm_vars,
                 slg_vars>>

ConClassify ==
    /\ con_pc = "input"
    /\ con_pc' = "classified"
    /\ con_out' = get_skin_concerns(Join(con_text, <<>>))
    /\ UNCHANGED con_text
    /\ UNCHANGED <<loop_vars, ing_vars, siz_vars, lin_vars, gat_vars, nrm_vars,
                 slg_vars>>

ConNext ==
    \/ \E w \in ConcernWords : ConType(w)
    \/ ConClassify

SpecConcern == ConInit /\ [][ConNext]_vars

\* the index of a concern in the declared order
ConcernIndex(c) ==
    CHOOSE n \in 1..Len(concern_patterns) : concern_patterns[n].concern = c

\* whether some sub-pattern of category n matches the lower-cased text
CategoryMatches(n, text) ==
    \E k \in 1..Len(concern_patterns[n].patterns) :
        Search(Lower(text), concern_patterns[n].patterns[k], FALSE)

\* C8: get_skin_concerns returns exactly the categories with a sub-pattern
\* that matches the lower-cased text, in the declared category order
\* wherever the keywords stand in the text, each category at most once.
C8_ConcernsExactOrderedOnce ==
    con_pc = "classified" =>
        LET text == Join(con_text, <<>>)
        IN  /\ \A n \in 1..Len(concern_patterns) :
                   CategoryMatches(n, text)
                       <=> InList(concern_patterns[n].concern, con_out)
            /\ \A i \in 1..Len(con_out) :
                   \E n \in 1..Len(concern_patterns) :
                       concern_patterns[n].concern = con_out[i]
            /\ \A i, j \in 1..Len(con_out) :
                   i < j => ConcernIndex(con_out[i]) < ConcernIndex(con_out[j])

\* a text naming a later category before an earlier one, the earlier one by
\* two of its keywords, has been classified
C8_Witness ==
    /\ con_pc = "classified"
    /\ con_text = <<<<"S", "P", "F">>, <<"p", "i", "m", "p", "l", "e">>, <<"a", "c", "n", "e">>>>
    /\ con_out = <<<<"a", "c", "n", "e">>, <<"s", "u", "n", " ", "p", "r", "o", "t", "e", "c", "t", "i", "o", "n">>>>

-----------------------------------------------------------------------------
(* extract_size_volume applied to a record whose texts are made of words *)

\* the most words the texts of one record are made of
MaxSizeWords == 3

SizeWords == {<<"2", ".", "5", " ", "M", "L", " ">>, <<"5", "g", " ">>, <<"5", "k", "g", " ">>, <<"C", "r", "e", "a", "m", " ">>, <<"5", " ", "T", "a", "b", "l", "e", "t", "s", " ">>}

SizInit ==
    /\ siz_pc = "input"
    /\ siz_prod = EmptyProd
    /\ siz_words = 0
    /\ siz_out = <<>>
    /\ LoopOff /\ IngOff /\ ConOff /\ LinOff /\ GatOff /\ NrmOff /\ SlgOff

SizMore ==
    /\ siz_pc = "input"
    /\ siz_words < MaxSizeWords
    /\ siz_words' = siz_words + 1
    /\ UNCHANGED <<siz_pc, siz_out>>
    /\ UNCHANGED <<loop_vars, ing_vars, con_vars, lin_vars, gat_vars, nrm_vars,
                 slg_vars>>

\* the text of a value with w added to it
Extended(x, w) == Get(x, Str(<<>>)).v \o w

SizName(w) ==
    /\ SizMore
    /\ siz_prod' = [siz_prod EXCEPT !.name = Str(Extended(@, w))]

SizDetail(w) ==
    /\ SizMore
    /\ siz_prod' = [siz_prod EXCEPT !.details =
                        Details(Append(@.items, Detail(Str(<<"I", "n", "f", "o">>), Str(w))))]

SizDescription(w) ==
    /\ SizMore
    /\ siz_prod' = [siz_prod EXCEPT !.description = Str(Extended(@, w))]

SizAttributes(w) ==
    /\ SizMore
    /\ siz_prod' = [siz_prod EXCEPT !.attributes = Dict(Extended(@, w))]

SizExtract ==
    /\ siz_pc = "input"
    /\ siz_pc' = "extracted"
    /\ siz_out' = extract_size_volume(siz_prod)
    /\ UNCHANGED <<siz_prod, siz_words>>
    /\ UNCHANGED <<loop_vars, ing_vars, con_vars, lin_vars, gat_vars, nrm_vars,
                 slg_vars>>

SizNext ==
    \/ \E w \in SizeWords : SizName(w)
    \/ \E w \in SizeWords : SizDetail(w)
    \/ \E w \in SizeWords : SizDescription(w)
    \/ \E w \in SizeWords : SizAttributes(w)
    \/ SizExtract

SpecSize == SizInit /\ [][SizNext]_vars

\* the four texts searched, in the order of the claim: the name, the detail
\* contents joined by spaces, the description, the rendering of attributes
C7_Sources ==
    LET items == siz_prod.details.items
    IN  << Get(siz_prod.name, Str(<<>>)).v,
           Join([n \in 1..Len(items) |-> items[n].content.v], <<" ">>),
           Get(siz_prod.description, Str(<<>>)).v,
           IF siz_prod.attributes.t = "absent" THEN <<"{", "}">>
           ELSE PyStr(siz_prod.attributes) >>

\* the (source, pattern) pairs that match in the texts sources
C7_Pairs(sources) ==
    {p \in (1..4) \X (1..Len(size_patterns)) :
        SizeSearch(sources[p[1]], size_patterns[p[2]]).found}

\* C7: extract_size_volume returns the match of the first (source, pattern)
\* pair that matches, the sources in the order name, joined detail contents,
\* description, attributes and the patterns in declared order inside a
\* source (so an earlier source beats a later one, and an earlier pattern a
\* later one that matches further left); it returns the sentinel exactly
\* when no pair matches.
C7_FirstSourceThenFirstPattern ==
    siz_pc = "extracted" =>
        LET sources == C7_Sources
            pairs == C7_Pairs(sources)
        IN  IF pairs = {} THEN siz_out = Str(NA)
            ELSE LET p == CHOOSE a \in pairs : \A b \in pairs :
                              a[1] < b[1] \/ (a[1] = b[1] /\ a[2] <= b[2])
                     match == SizeSearch(sources[p[1]], size_patterns[p[2]])
                 IN  /\ siz_out = Str(match.group1 \o match.group2)
                     /\ siz_out # Str(NA)

\* a name in which grams stand left of millilitres, and a description in
\* millilitres under a name in kilograms, have been searched
C7_Witness ==
    /\ siz_pc = "extracted"
    /\ \/ siz_prod.name = Str(<<"5", "g", " ", "2", ".", "5", " ", "M", "L", " ">>) /\ siz_out = Str(<<"2", ".", "5", "M", "L">>)
       \/ /\ siz_prod.name = Str(<<"5", "k", "g", " ">>)
          /\ siz_prod.description = Str(<<"2", ".", "5", " ", "M", "L", " ">>)
          /\ siz_out = Str(<<"5", "k", "g">>)

-----------------------------------------------------------------------------
(* extract_product_line_name applied to a record made of details and words *)

\* the most texts (name words, detail labels and contents) of one record
MaxLineWords == 5

Repeat(c, n) == [i \in 1..n |-> c]

LineNameWords == {<<"A", "c", "m", "e">>, <<"S", "u", "n">>, <<"G", "o">>, <<"M", "o", "i", "s", "t", "u", "r", "i", "s", "e", "r">>, <<"c", "r", "e", "a", "m">>}

LineDetails ==
    { Detail(Str(<<"P", "r", "o", "d", "u", "c", "t", " ", "L", "i", "n", "e">>), Str(<<"S", "u", "n", TAG, "C", "a", "r", "e">>)),
      Detail(Str(<<"R", "A", "N", "G", "E">>), Str(<<>>)),
      Detail(Str(<<"S", "e", "r", "i", "e", "s">>), Str(Repeat("x", MaxLineNameLen))),
      Detail(Str(<<"C", "o", "l", "l", "e", "c", "t", "i", "o", "n">>), Str(Repeat("y", MaxLineNameLen - 1))),
      Detail(Str(<<"I", "n", "g", "r", "e", "d", "i", "e", "n", "t", "s">>), Str(<<"A", "q", "u", "a">>)) }

LinInit ==
    /\ lin_pc = "input"
    /\ lin_prod \in {[EmptyProd EXCEPT !.brand = b] :
                        b \in {Brand(Str(<<"A", "c", "m", "e">>)), NoBrand("absent")}}
    /\ lin_words = 0
    /\ lin_out = <<>>
    /\ LoopOff /\ IngOff /\ ConOff /\ SizOff /\ GatOff /\ NrmOff /\ SlgOff

\* n more texts in the record
LinMore(n) ==
    /\ lin_pc = "input"
    /\ lin_words + n <= MaxLineWords
    /\ lin_words' = lin_words + n
    /\ UNCHANGED <<lin_pc, lin_out>>
    /\ UNCHANGED <<loop_vars, ing_vars, con_vars, siz_vars, gat_vars, nrm_vars,
                 slg_vars>>

\* one more word in the name, the words separated by a space
LinName(w) ==
    /\ LinMore(1)
    /\ lin_prod' = [lin_prod EXCEPT !.name =
                        IF @.t = "absent" THEN Str(w) ELSE Str(@.v \o <<" ">> \o w)]

\* one more detail: a label and a content
LinDetail(d) ==
    /\ LinMore(2)
    /\ lin_prod' = [lin_prod EXCEPT !.details = Details(Append(@.items, d))]

LinExtract ==
    /\ lin_pc = "input"
    /\ lin_pc' = "extracted"
    /\ lin_out' = extract_product_line_name(lin_prod)
    /\ UNCHANGED <<lin_prod, lin_words>>
    /\ UNCHANGED <<loop_vars, ing_vars, con_vars, siz_vars, gat_vars, nrm_vars,
                 slg_vars>>

LinNext ==
    \/ \E w \in LineNameWords : LinName(w)
    \/ \E d \in LineDetails : LinDetail(d)
    \/ LinExtract

SpecLine == LinInit /\ [][LinNext]_vars

\* the details of lin_prod that qualify for strategy 1: the label contains a
\* keyword, case-insensitively, and the sanitized content is non-empty and
\* shorter than 100 characters
QualifyingDetails ==
    LET items == lin_prod.details.items
    IN  {n \in 1..Len(items) :
            /\ \E k \in {<<"l", "i", "n", "e">>, <<"c", "o", "l", "l", "e", "c", "t", "i", "o", "n">>, <<"s", "e", "r", "i", "e", "s">>, <<"r", "a", "n", "g", "e">>} :
                   Contains(Lower(items[n].content_label.v), k)
            /\ clean_text(items[n].content.v) # <<>>
            /\ Len(clean_text(items[n].content.v)) < MaxLineNameLen}

\* C10: extract_product_line_name returns the sanitized content of the first
\* qualifying detail in list order; a detail with a matching label and an
\* empty or 100+ character content is skipped without ending the scan; the
\* name parsing of strategy 2 decides the result only when no detail
\* qualifies.
C10_FirstQualifyingDetail ==
    lin_pc = "extracted" =>
        LET Q == QualifyingDetails
        IN  IF Q # {}
            THEN lin_out = Str(clean_text(lin_prod.details.items[Min(Q)].content.v))
            ELSE lin_out = LineStrategy2(lin_prod)

\* a detail with a line label and a content of 100 characters was passed
\* over and the sanitized content of the next one returned
C10_Witness ==
    /\ lin_pc = "extracted"
    /\ Len(lin_prod.details.items) = 2
    /\ QualifyingDetails = {2}
    /\ lin_prod.details.items[1].content_label = Str(<<"S", "e", "r", "i", "e", "s">>)
    /\ lin_out = Str(<<"S", "u", "n", " ", "C", "a", "r", "e">>)

\* the case of the claim C9: strategy 1 yields nothing and the brand name is
\* a non-empty substring of the product name
C9_Case ==
    /\ lin_pc = "extracted"
    /\ QualifyingDetails = {}
    /\ lin_prod.brand.t = "dict"
    /\ lin_prod.brand.brand_name.t = "str"
    /\ lin_prod.brand.brand_name.v # <<>>
    /\ lin_prod.name.t = "str"
    /\ Contains(lin_prod.name.v, lin_prod.brand.brand_name.v)

\* the tokens of the name with the brand removed
C9_Tokens == Split(Strip(RemoveAll(lin_prod.name.v, 1, lin_prod.brand.brand_name.v)))

\* the longest prefix, of at most 3 tokens, whose tokens all start with an
\* upper-case letter and are longer than 2 characters
C9_Collected ==
    LET tokens == C9_Tokens
        ok(k) == \A i \in 1..k : tokens[i][1] \in UpperSet /\ Len(tokens[i]) > 2
        K == {k \in 0..3 : k <= Len(tokens) /\ ok(k)}
    IN  SubSeq(tokens, 1, CHOOSE k \in K : \A j \in K : j <= k)

\* what the claim has returned for the collected tokens
C9_Returned ==
    LET candidate == Join(C9_Collected, <<" ">>)
    IN  IF \E term \in {<<"c", "r", "e", "a", "m">>, <<"l", "o", "t", "i", "o", "n">>, <<"s", "e", "r", "u", "m">>, <<"o", "i", "l">>, <<"g", "e", "l">>, <<"c", "l", "e", "a", "n", "s", "e", "r">>,
                        <<"m", "o", "i", "s", "t", "u", "r", "i", "s", "e", "r">>, <<"s", "p", "f">>, <<"w", "a", "s", "h">>} :
               Contains(Lower(candidate), term)
        THEN Str(NA) ELSE Str(candidate)

\* C9 as stated: whenever at least one token was collected, a remainder of a
\* single token included, the collected tokens joined by spaces are returned
\* unless they contain a generic term, and then the sentinel.
C9_AsStated ==
    (C9_Case /\ C9_Collected # <<>>) => lin_out = C9_Returned

\* C9 as amended: the same when the remainder has more than one token; when
\* the remainder has at most one token the sentinel is returned.
C9_CollectedPrefixOfSeveralTokens ==
    C9_Case =>
        /\ (Len(C9_Tokens) > 1 /\ C9_Collected # <<>>) => lin_out = C9_Returned
        /\ Len(C9_Tokens) <= 1 => lin_out = Str(NA)

\* a name of four qualifying tokens after the brand gave a line of three
C9_Witness ==
    /\ C9_Case
    /\ lin_prod.name = Str(<<"A", "c", "m", "e", " ", "S", "u", "n", " ", "S", "u", "n", " ", "S", "u", "n", " ", "S", "u", "n">>)
    /\ lin_out = Str(<<"S", "u", "n", " ", "S", "u", "n", " ", "S", "u", "n">>)

-----------------------------------------------------------------------------
(* validate_completeness applied to a row *)

\* the most fields of a row that differ from a populated string
MaxChanged == 2

Populated == Str(<<"o", "k">>)

\* a field is the sentinel, empty, None, missing from the row, the number 0,
\* or populated with a number
FieldValues == {Str(NA), Str(<<>>), None, Absent, IntVal(<<"0">>), IntVal(<<"7">>)}

GatInit ==
    /\ gat_pc = "input"
    /\ gat_row = [f \in Range(row_fields) |-> Populated]
    /\ gat_out = <<>>
    /\ LoopOff /\ IngOff /\ ConOff /\ SizOff /\ LinOff /\ NrmOff /\ SlgOff

GatSet(f, x) ==
    /\ gat_pc = "input"
    /\ gat_row[f] = Populated
    /\ Cardinality({g \in Range(row_fields) : gat_row[g] # Populated}) < MaxChanged
    /\ gat_row' = [gat_row EXCEPT ![f] = x]
    /\ UNCHANGED <<gat_pc, gat_out>>
    /\ UNCHANGED <<loop_vars, ing_vars, con_vars, siz_vars, lin_vars, nrm_vars,
                 slg_vars>>

GatValidate ==
    /\ gat_pc = "input"
    /\ gat_pc' = "validated"
    /\ gat_out' = validate_completeness(gat_row)
    /\ UNCHANGED gat_row
    /\ UNCHANGED <<loop_vars, ing_vars, con_vars, siz_vars, lin_vars, nrm_vars,
                 slg_vars>>

GatNext ==
    \/ \E f \in Range(row_fields), x \in FieldValues : GatSet(f, x)
    \/ GatValidate

SpecGate == GatInit /\ [][GatNext]_vars

\* the 11 fields of the claim C1, in its order
C1_Fields ==
    <<"Product ID", "Product Name", "Brand Name", "Product Description",
      "Product Images", "Barcode (EAN/UPC)", "Price", "Size/Volume",
      "Ingredients", "Skin Concern", "Source URL">>

\* the value is the sentinel or falsy (empty, None, missing, zero)
C1_Missing(x) ==
    \/ x.t = "str" /\ (x.v = NA \/ x.v = <<>>)
    \/ x.t \in {"None", "absent"}
    \/ x.t = "int" /\ x.v = <<"0">>

\* C1: validate_completeness(row) returns (True, None) exactly when none of
\* the 11 required fields is the sentinel or falsy, whatever Product Line
\* Name holds; otherwise (False, f), f the first such field in declared order.
C1_FirstMissingField ==
    gat_pc = "validated" =>
        LET missing == {n \in 1..Len(C1_Fields) : C1_Missing(gat_row[C1_Fields[n]])}
        IN  /\ (gat_out.is_complete <=> missing = {})
            /\ missing = {} => gat_out = [is_complete |-> TRUE, missing_field |-> "None"]
            /\ missing # {} =>
                   gat_out = [is_complete |-> FALSE,
                              missing_field |-> C1_Fields[Min(missing)]]

\* a row whose product line is the sentinel and whose other fields are
\* populated has been accepted
C1_Witness ==
    /\ gat_pc = "validated"
    /\ gat_row["Product Line Name"] = Str(NA)
    /\ gat_out.is_complete

-----------------------------------------------------------------------------
(* The records the catalog API returns *)

\* a record whose row is complete, with a product line
GoodProd ==
    [EmptyProd EXCEPT
        !.product_id = Str(<<"4", "2">>),
        !.name = Str(<<"A", "c", "m", "e", " ", "S", "u", "n", " ", "K", "i", "d", "s", " ", "5", "g">>),
        !.upc = Str(<<"9", "3">>),
        !.price = IntVal(<<"9">>),
        !.brand = Brand(Str(<<"A", "c", "m", "e">>)),
        !.images = Images(<<<<"a", ".", "p", "n", "g">>, <<"b", ".", "p", "n", "g">>>>),
        !.details = Details(<<
            Detail(Str(<<"G", "e", "n", "e", "r", "a", "l", " ", "I", "n", "f", "o", "r", "m", "a", "t", "i", "o", "n">>),
                   Str(<<"G", "e", "n", "t", "l", "e", TAG, "c", "a", "r", "e", ".">>)),
            Detail(Str(<<"I", "n", "g", "r", "e", "d", "i", "e", "n", "t", "s">>), Str(<<"A", "Q", "U", "A", ".", " ", "G", "L", "Y", "C", "E", "R", "I", "N", ".">>)) >>)]

\* a record whose row is complete but for the product line: the name does
\* not hold the brand
PlainProd == [GoodProd EXCEPT !.name = Str(<<"S", "u", "n", " ", "c", "r", "e", "a", "m", " ", "5", "g">>)]

\* the details of GoodProd with those of its first item changed
FirstDetail(label, content) ==
    Details(<<Detail(label, content), GoodProd.details.items[2]>>)

\* what a record may lack: a key missing, null, or of another type
Damages ==
    {<<f, x>> : f \in {"product_id", "name", "upc"},
                x \in {Absent, None, IntVal(<<"7">>)}}
    \cup {<<"price", x>> : x \in {Absent, None, Str(<<"9", ".", "5">>)}}
    \cup {<<"brand", x>> : x \in {NoBrand("absent"), NoBrand("None"),
                                  Brand(Absent), Brand(None)}}
    \cup {<<"images", x>> : x \in {NoImages("absent"), NoImages("None"),
                                   Images(<<>>)}}
    \cup {<<"details", x>> : x \in
            {NoDetails("absent"), NoDetails("None"), Details(<<>>),
             FirstDetail(Absent, GoodProd.details.items[1].content),
             FirstDetail(None, GoodProd.details.items[1].content),
             FirstDetail(GoodProd.details.items[1].content_label, Absent),
             FirstDetail(GoodProd.details.items[1].content_label, None)}}

Damaged(prod, d) == [prod EXCEPT ![d[1]] = d[2]]

-----------------------------------------------------------------------------
(* The normalisation and the gate applied to one fetched record *)

\* the most keys of a fetched record that are missing, null or mistyped
MaxDamaged == 2

ProdKeys == {"product_id", "name", "upc", "price", "brand", "images", "details"}

Intact(prod, f) == prod[f] \in {GoodProd[f], PlainProd[f]}

NrmInit ==
    /\ nrm_pc = "input"
    /\ nrm_prod \in {GoodProd, PlainProd}
    /\ nrm_row = <<>>
    /\ nrm_out = <<>>
    /\ LoopOff /\ IngOff /\ ConOff /\ SizOff /\ LinOff /\ GatOff /\ SlgOff

NrmDamage(d) ==
    /\ nrm_pc = "input"
    /\ Intact(nrm_prod, d[1])
    /\ Cardinality({f \in ProdKeys : ~Intact(nrm_prod, f)}) < MaxDamaged
    /\ nrm_prod' = Damaged(nrm_prod, d)
    /\ UNCHANGED <<nrm_pc, nrm_row, nrm_out>>
    /\ UNCHANGED <<loop_vars, ing_vars, con_vars, siz_vars, lin_vars, gat_vars,
                 slg_vars>>

\* lines 504-531 return a row
NrmBuild ==
    /\ nrm_pc = "input"
    /\ ~Raised(BuildRow(nrm_prod, <<"p", "1">>))
    /\ nrm_pc' = "built"
    /\ nrm_row' = BuildRow(nrm_prod, <<"p", "1">>).row
    /\ UNCHANGED <<nrm_prod, nrm_out>>
    /\ UNCHANGED <<loop_vars, ing_vars, con_vars, siz_vars, lin_vars, gat_vars,
                 slg_vars>>

\* a call of lines 504-516 raises
NrmRaise ==
    /\ nrm_pc = "input"
    /\ Raised(BuildRow(nrm_prod, <<"p", "1">>))
    /\ nrm_pc' = "raised"
    /\ nrm_out' = BuildRow(nrm_prod, <<"p", "1">>)
    /\ UNCHANGED <<nrm_prod, nrm_row>>
    /\ UNCHANGED <<loop_vars, ing_vars, con_vars, siz_vars, lin_vars, gat_vars,
                 slg_vars>>

\* line 534
NrmValidate ==
    /\ nrm_pc = "built"
    /\ nrm_pc' = "validated"
    /\ nrm_out' = validate_completeness(nrm_row)
    /\ UNCHANGED <<nrm_prod, nrm_row>>
    /\ UNCHANGED <<loop_vars, ing_vars, con_vars, siz_vars, lin_vars, gat_vars,
                 slg_vars>>

NrmNext ==
    \/ \E d \in Damages : NrmDamage(d)
    \/ NrmBuild
    \/ NrmRaise
    \/ NrmValidate

SpecNorm == NrmInit /\ [][NrmNext]_vars

\* C3: for every raw record, its fields absent, null or of another type
\* included, each of the 12 fields of the row built is a string, never null.
C3_EveryFieldAString ==
    nrm_pc \in {"built", "validated"} =>
        \A f \in Range(row_fields) : nrm_row[f].t = "str"

\* the record is in the scope of the claim C4: its fields are strings,
\* absent or null, none is of another type
C4_Case ==
    /\ \A f \in {"product_id", "name", "upc"} : nrm_prod[f].t # "int"
    /\ nrm_prod.brand.brand_name.t # "int"

\* C4: normalising and gating a fetched record never raises, whichever of
\* name, brand, images, details, a detail's label or content is absent or
\* null; the missing data ends up as the sentinel.
C4_NeverRaises ==
    C4_Case => nrm_pc # "raised"

-----------------------------------------------------------------------------
(* scrape_products: the main loop, lines 478-546 *)

\* the parameter max_products: the number of complete products to find
MaxProducts == 2

\* max_attempts = max_products * 5
AttemptFactor == 5
max_attempts == MaxProducts * AttemptFactor

\* batch_size = min(50, max_attempts - attempts + 10)
BatchCap == 50
BatchSlack == 10
batch_size == IF max_attempts - attempts + BatchSlack < BatchCap
              THEN max_attempts - attempts + BatchSlack ELSE BatchCap

\* the product slugs of the catalog
Slugs == {<<"p", "1">>, <<"p", "2">>}

\* what collect_random_slugs(categories, total_products) can return: the
\* slugs the category pages list, without duplicates, shuffled, at most
\* total_products of them
collect_random_slugs(total_products) ==
    {q \in UNION {[1..n -> Slugs] : n \in 0..Cardinality(Slugs)} :
        /\ Len(q) <= total_products
        /\ \A i, j \in 1..Len(q) : i # j => q[i] # q[j]}

\* what fetch_product_data(slug) can return, apart from None
Catalog == {GoodProd, PlainProd} \cup {Damaged(GoodProd, d) : d \in Damages}

\* lines 505-531 for each record the catalog can serve and each slug
Normalised == [prod \in Catalog |-> [slug \in Slugs |-> BuildRow(prod, slug)]]

\* line 534 for each of these rows
Gated ==
    [prod \in Catalog |-> [slug \in Slugs |->
        IF Raised(Normalised[prod][slug]) THEN Normalised[prod][slug]
        ELSE validate_completeness(Normalised[prod][slug].row)]]

Init ==
    /\ pc = "loop"
    /\ rows = <<>>
    /\ candidate_slugs_queue = <<>>
    /\ attempts = 0
    /\ fetched = [slug \in Slugs |-> 0]
    /\ IngOff /\ ConOff /\ SizOff /\ LinOff /\ GatOff /\ NrmOff /\ SlgOff

\* the loop condition, line 483
Looping == pc = "loop" /\ Len(rows) < MaxProducts /\ attempts < max_attempts

Others ==
    <<ing_vars, con_vars, siz_vars, lin_vars, gat_vars, nrm_vars, slg_vars>>

\* lines 485-491: the empty queue is refilled; the loop breaks when the
\* refill brings nothing
Refill(new_slugs) ==
    /\ Looping
    /\ candidate_slugs_queue = <<>>
    /\ candidate_slugs_queue' =
           SelectSeq(new_slugs, LAMBDA slug : ~InList(slug, candidate_slugs_queue))
    /\ pc' = IF candidate_slugs_queue' = <<>> THEN "done" ELSE "loop"
    /\ UNCHANGED <<rows, attempts, fetched, Others>>

\* a slip: the candidate is taken and fetched, the attempt is not counted
AttemptUncounted ==
    /\ pc = "loop" /\ Len(rows) < MaxProducts /\ attempts < max_attempts
    /\ candidate_slugs_queue # <<>>
    /\ candidate_slugs_queue' = Tail(candidate_slugs_queue)
    /\ attempts' = attempts
    /\ fetched' = [fetched EXCEPT ![Head(candidate_slugs_queue)] = @ + 1]
    /\ UNCHANGED <<ing_vars, con_vars, siz_vars, lin_vars, gat_vars, nrm_vars,
                 slg_vars>>

\* lines 493-500: the next candidate is taken, the attempt counted and the
\* record of the candidate fetched
Attempt ==
    /\ Looping
    /\ candidate_slugs_queue # <<>>
    /\ candidate_slugs_queue' = Tail(candidate_slugs_queue)
    /\ attempts' = attempts + 1
    /\ fetched' = [fetched EXCEPT ![Head(candidate_slugs_queue)] = @ + 1]
    /\ UNCHANGED Others

\* lines 500-502: the fetch fails
FetchFails ==
    /\ Attempt
    /\ UNCHANGED <<pc, rows>>

\* lines 504-537: the fetched record gives a complete row, which is kept
FetchComplete(prod) ==
    /\ Attempt
    /\ ~Raised(Normalised[prod][Head(candidate_slugs_queue)])
    /\ Gated[prod][Head(candidate_slugs_queue)].is_complete
    /\ rows' = Append(rows, Normalised[prod][Head(candidate_slugs_queue)].row)
    /\ UNCHANGED pc

\* lines 504-541: the fetched record gives an incomplete row, which is dropped
FetchIncomplete(prod) ==
    /\ Attempt
    /\ ~Raised(Normalised[prod][Head(candidate_slugs_queue)])
    /\ ~Gated[prod][Head(candidate_slugs_queue)].is_complete
    /\ UNCHANGED <<pc, rows>>

\* lines 504-516: a call on the fetched record raises, which ends the run
FetchRaises(prod) ==
    /\ Attempt
    /\ Raised(Normalised[prod][Head(candidate_slugs_queue)])
    /\ pc' = "raised"
    /\ UNCHANGED rows

\* line 483: the loop ends on the target count or the attempt budget
LoopEnds ==
    /\ pc = "loop"
    /\ ~Looping
    /\ pc' = "done"
    /\ UNCHANGED <<rows, candidate_slugs_queue, attempts, fetched, Others>>

Next ==
    \/ \E new_slugs \in collect_random_slugs(batch_size) : Refill(new_slugs)
    \/ FetchFails
    \/ \E prod \in Catalog : FetchComplete(prod)
    \/ \E prod \in Catalog : FetchIncomplete(prod)
    \/ \E prod \in Catalog : FetchRaises(prod)
    \/ LoopEnds

Spec == Init /\ [][Next]_vars

\* the scheduling of the loop: an iteration that can run does run
LiveSpec == Spec /\ WF_vars(Next)

\* the number of calls of fetch_product_data so far
RECURSIVE SumOver(_, _)
SumOver(f, S) ==
    IF S = {} THEN 0
    ELSE SumOver(f, S \ {CHOOSE x \in S : TRUE}) + f[CHOOSE x \in S : TRUE]

Fetches == SumOver(fetched, Slugs)

\* C11: the main loop keeps attempts <= 5 * max_products and
\* len(rows) <= max_products, has fetched exactly once per counted attempt,
\* and terminates whatever the fetch outcomes and the candidate batches are;
\* when it ends normally the target count is reached, the attempt budget is
\* used up, or the refill brought no candidate.
C11_BoundedAndTerminates ==
    /\ [](/\ attempts <= 5 * MaxProducts
          /\ Len(rows) <= MaxProducts
          /\ Fetches = attempts
          /\ pc = "done" => \/ Len(rows) = MaxProducts
                            \/ attempts = 5 * MaxProducts
                            \/ candidate_slugs_queue = <<>>)
    /\ <>(pc # "loop")

\* the loop has ended on the attempt budget with the target count not
\* reached, after failed fetches, dropped rows and a kept row
C11_Witness ==
    /\ pc = "done"
    /\ attempts = 5 * MaxProducts
    /\ Fetches = 5 * MaxProducts
    /\ Len(rows) = 1
    /\ Len(rows) < MaxProducts

\* C2: in every reachable state of scrape_products every row of `rows` has
\* all its fields other than Product Line Name populated, neither the
\* sentinel nor empty (nor null): no other row is ever appended.
C2_AcceptedRowsPopulated ==
    \A i \in 1..Len(rows) :
        \A f \in Range(row_fields) \ {"Product Line Name"} :
            /\ rows[i][f].t \in {"str", "int"}
            /\ rows[i][f].v # NA
            /\ rows[i][f].v # <<>>

\* a row whose product line is the sentinel is held in rows, after a record
\* with a missing field was fetched and dropped
C2_Witness ==
    /\ Len(rows) = 1
    /\ attempts = 2
    /\ rows[1]["Product Line Name"] = Str(NA)

\* C12: within one run no slug is fetched more than once, so rows never
\* holds two rows with the same Source URL, refills of the emptied queue
\* included.
C12_NoSlugFetchedTwice ==
    /\ \A slug \in Slugs : fetched[slug] <= 1
    /\ \A i, j \in 1..Len(rows) :
           i # j => rows[i]["Source URL"] # rows[j]["Source URL"]

-----------------------------------------------------------------------------
(* get_product_slugs: the pagination loop, lines 368-414 *)

\* the parameter max_products of get_product_slugs
MaxSlugs == 3

\* the most entries in one page of results
MaxPageLen == 2

\* the page number only goes into the request: it is kept up to MaxPage, and
\* from there on stands for "MaxPage or more"
MaxPage == 4

\* the slugs the category lists
ListedSlugs == {<<"p", "1">>, <<"p", "2">>, <<"p", "3">>, <<"p", "4">>}

\* an entry of data["results"]: a product with a slug, or one without
Entries == {[slug |-> Str(x)] : x \in ListedSlugs} \cup {[slug |-> Absent]}

\* the non-empty values of data.get("results", [])
Pages == UNION {[1..n -> Entries] : n \in 1..MaxPageLen}

SlgInit ==
    /\ slg_pc = "loop"
    /\ slugs = <<>>
    /\ page = 1
    /\ total_fetched = 0
    /\ LoopOff /\ IngOff /\ ConOff /\ SizOff /\ LinOff /\ GatOff /\ NrmOff

\* the loop `for prod in products`, from entry n on: the slugs list and the
\* counter it leaves
RECURSIVE ProductsLoop(_, _, _, _)
ProductsLoop(products, n, the_slugs, fetched_so_far) ==
    IF n > Len(products) THEN [slugs |-> the_slugs, total_fetched |-> fetched_so_far]
    ELSE IF /\ Truthy(GetOrNone(products[n].slug))
            /\ ~InList(products[n].slug.v, the_slugs)
         THEN IF fetched_so_far + 1 >= MaxSlugs
              THEN [slugs |-> Append(the_slugs, products[n].slug.v),
                    total_fetched |-> fetched_so_far + 1]
              ELSE ProductsLoop(products, n + 1,
                                Append(the_slugs, products[n].slug.v),
                                fetched_so_far + 1)
         ELSE ProductsLoop(products, n + 1, the_slugs, fetched_so_far)

\* the loop condition, line 387
Paging == slg_pc = "loop" /\ total_fetched < MaxSlugs

\* the reply to the request of lines 390-392 is awaited
Awaiting == slg_pc = "request"

SlgOthers ==
    <<loop_vars, ing_vars, con_vars, siz_vars, lin_vars, gat_vars, nrm_vars>>

\* lines 387-390: the loop goes on and the request for the page is sent
Request ==
    /\ Paging
    /\ slg_pc' = "request"
    /\ UNCHANGED <<slugs, page, total_fetched, SlgOthers>>

\* lines 391-407: the request returns a non-empty page, whose new slugs are
\* collected, and the next page is the one to ask for
PageOfResults(products) ==
    /\ Awaiting
    /\ slg_pc' = "loop"
    /\ slugs' = ProductsLoop(products, 1, slugs, total_fetched).slugs
    /\ total_fetched' =
           ProductsLoop(products, 1, slugs, total_fetched).total_fetched
    /\ page' = IF page < MaxPage THEN page + 1 ELSE MaxPage
    /\ UNCHANGED SlgOthers

\* lines 395-397: the request returns no results, break
EmptyPage ==
    /\ Awaiting
    /\ slg_pc' = "returned"
    /\ UNCHANGED <<slugs, page, total_fetched, SlgOthers>>

\* lines 409-411: the request raises, break
RequestError ==
    /\ Awaiting
    /\ slg_pc' = "returned"
    /\ UNCHANGED <<slugs, page, total_fetched, SlgOthers>>

\* line 387: the loop ends on the count, line 413 returns slugs
EnoughSlugs ==
    /\ slg_pc = "loop"
    /\ ~Paging
    /\ slg_pc' = "returned"
    /\ UNCHANGED <<slugs, page, total_fetched, SlgOthers>>

SlgNext ==
    \/ Request
    \/ \E products \in Pages : PageOfResults(products)
    \/ EmptyPage
    \/ RequestError
    \/ EnoughSlugs

SpecSlugs == SlgInit /\ [][SlgNext]_vars

\* the scheduling of the loop: an iteration that can run does run
LiveSlugs == SpecSlugs /\ WF_vars(SlgNext)

\* C13: the pagination loop terminates for every sequence of replies (a
\* non-empty page, an empty page or an error), pages holding only slugs
\* already collected or entries without a slug included; the list returned
\* has no duplicate and at most max_products slugs.
C13_PaginationTerminates ==
    /\ <>(slg_pc = "returned")
    /\ [](slg_pc = "returned" =>
            /\ Len(slugs) <= MaxSlugs
            /\ \A i, j \in 1..Len(slugs) : i # j => slugs[i] # slugs[j])

\* the part of C13 about the list: whenever the loop does return, the list
\* has no duplicate and at most max_products slugs
C13_ReturnedListBounded ==
    /\ total_fetched = Len(slugs)
    /\ Len(slugs) <= MaxSlugs
    /\ \A i, j \in 1..Len(slugs) : i # j => slugs[i] # slugs[j]

=============================================================================
